---- MODULE Spec2Model ----
\* A model of hatch.services.TwitterService: get_users_info, the bulk lookup of
\* Twitter profiles for local users, with the info cache, the batching of the
\* cache misses into lookup groups and the reconciliation of the persisted
\* sm_not_found flags; get_user_info, the lookup of one profile; and tweet,
\* with the flag that tells the listener process to restart.
\*
\* Twitter IDs (social_auth.uid, info['id'], info['id_str']) are decimal strings
\* in the code; the model writes each as the natural number it denotes, so
\* str(info['id']), info['id_str'] and social_auth.uid of one account coincide.
EXTENDS Integers, Sequences, FiniteSets, TLC

\* ---------------------------------------------------------------------------
\* Program constants
\* ---------------------------------------------------------------------------
\* chunk(user_ids, 100): the size of one lookup group.
LookupGroupSize == 100
\* len(data) > 6000: above this many linked users force_refresh is ignored.
ForceRefreshCap == 6000

\* ---------------------------------------------------------------------------
\* Bounds of the model
\* ---------------------------------------------------------------------------
\* Number of get_users_info calls in one behaviour.
MaxCalls == 2
\* Number of revisions a remote profile goes through.
MaxRev == 2
\* Number of get_user_info and tweet calls in one behaviour.
MaxOps == 2

\* ---------------------------------------------------------------------------
\* The users table and their social auth records
\* ---------------------------------------------------------------------------
\* Four individually named users (by pk), and a block of ordinary users linked
\* to Twitter that is large enough for a request to exceed ForceRefreshCap.
UserA == 1
UserB == 2
UserNoAuth == 3
UserOther == 4
Special == {UserA, UserB, UserNoAuth, UserOther}
Bulk == (UserOther + 1)..(UserOther + ForceRefreshCap)
Bulk100 == (UserOther + 1)..(UserOther + LookupGroupSize)

\* user.social_auth.all(): the list of the user's social auth records. UserNoAuth
\* has none; UserOther is linked through another provider, whose uid happens to
\* be the number that is UserA's Twitter ID.
social_auth(user) ==
    IF user = UserNoAuth THEN << >>
    ELSE IF user = UserOther THEN << [provider |-> "facebook", uid |-> 1000 + UserA] >>
    ELSE << [provider |-> "twitter", uid |-> 1000 + user] >>

VARIABLES
    db_users,       \* the pks of the rows of the users table
    infoCache,      \* cache entries 'user-<pk>:info': user pk -> profile
    socialIdCache,  \* cache entries 'user-<pk>:social-id': user pk -> uid
    sm_not_found,   \* the users whose persisted sm_not_found flag is True
    gone,           \* Twitter IDs the remote does not return (suspended, protected, deleted)
    rev,            \* the revision of the profiles the remote currently serves
    calls,          \* number of get_users_info calls made
    last,           \* what the last get_users_info call was given, read, sent and returned
    oauthCache,     \* the users with a cache entry 'user-<pk>:oauth-args'
    listening_user_ids, \* the cache entry 'listening_user_ids' (no entry: the empty set)
    restart_listener,   \* whether the central cache holds 'restart_listener' = True
    ops,            \* number of get_user_info and tweet calls made
    lastOp          \* what the last get_user_info or tweet call was given and did

vars == <<db_users, infoCache, socialIdCache, sm_not_found, gone, rev, calls, last,
          oauthCache, listening_user_ids, restart_listener, ops, lastOp>>

\* The variables get_users_info, called on behalf of the app, has no part in.
singleVars == <<oauthCache, listening_user_ids, restart_listener, ops, lastOp>>

\* on_behalf_of=None: the call is made from the app's account.
None == 0

\* The element of a one-element set. {e(x) : x \in {v}} evaluates v once, so
\* Only({e(x) : x \in {v}}) is e with x bound to the value of v.
Only(S) == CHOOSE y \in S : TRUE

Range(seq) == {seq[i] : i \in 1..Len(seq)}

Min(a, b) == IF a < b THEN a ELSE b

\* ---------------------------------------------------------------------------
\* get_user_id
\* ---------------------------------------------------------------------------
\* Variant of Raises: the provider of the social auth record is not looked at.
RaisesWithoutAuthOnly(sic, user) ==
    /\ user \notin DOMAIN sic
    /\ Len(social_auth(user)) = 0

\* get_user_id(user) with the social-id cache sic raises SocialMediaException
\* when the social id is not cached and the user has no social auth record or
\* the first one is of another provider.
Raises(sic, user) ==
    /\ user \notin DOMAIN sic
    /\ \/ Len(social_auth(user)) = 0
       \/ social_auth(user)[1].provider # "twitter"

\* What get_user_id(user) returns when it does not raise: the cached social id,
\* or the uid of the user's first social auth record.
get_user_id(sic, user) ==
    IF user \in DOMAIN sic THEN sic[user] ELSE social_auth(user)[1].uid

\* The users of a request that get_users_info keeps in data: those for which
\* get_user_id does not raise.
Linked(sic, users) == {user \in Range(users) : ~Raises(sic, user)}

\* data: cache_key => user_id. The cache key 'user-<pk>:info' is written as pk.
Data(sic, users) == [user \in Linked(sic, users) |-> get_user_id(sic, user)]

\* The social-id cache after the loop over users: get_user_id caches the social
\* id of every user it resolved (cache.set, line 271). The entries expire after
\* 60 seconds; the social auth records do not change in the model, so an entry
\* that expired is computed again to the same value.
SocialIdCacheAfter(sic, data) == data @@ sic

\* ---------------------------------------------------------------------------
\* cache.cache_buffer, utils.chunk and the remote API
\* ---------------------------------------------------------------------------
\* cache.get_many(keys): the mapping of the keys that have an entry to it.
get_many(entries, keys) == [k \in keys \cap (DOMAIN entries) |-> entries[k]]

\* cache.set_many(mapping): every key of the mapping is set to its value.
set_many(entries, mapping) == mapping @@ entries

\* chunk(seq, n): the successive slices of seq of n items, the last one shorter.
chunk(seq, n) ==
    [g \in 1..((Len(seq) + n - 1) \div n) |->
        SubSeq(seq, (g - 1) * n + 1, Min(g * n, Len(seq)))]

\* A profile as the remote returns it.
Profile(id, r) == [id |-> id, rev |-> r]

\* t.users.lookup(user_id=...) for one group, indexed by info['id']: the
\* profiles of the accessible IDs of the group, or [] when the call raised
\* TwitterHTTPError.
BulkInfo(id_group, failed, g, r) ==
    IF failed THEN << >> ELSE [id \in Range(id_group) \ g |-> Profile(id, r)]

\* ---------------------------------------------------------------------------
\* get_users_info
\* ---------------------------------------------------------------------------
\* Variants of ReadsCache: the condition with force_refresh not negated, without
\* the cap, and with the cap taken at 6000 already.
ReadsCacheInverted(force_refresh, data) ==
    force_refresh \/ Cardinality(DOMAIN data) > ForceRefreshCap

ReadsCacheNoCap(force_refresh, data) == ~force_refresh

ReadsCacheFromCap(force_refresh, data) ==
    ~force_refresh \/ Cardinality(DOMAIN data) >= ForceRefreshCap

\* Whether the call reads the info cache (line 115).
ReadsCache(force_refresh, data) ==
    ~force_refresh \/ Cardinality(DOMAIN data) > ForceRefreshCap

\* cache.get_many(data.keys()), or {} (lines 115-118).
AllInfo(ic, force_refresh, data) ==
    IF ReadsCache(force_refresh, data) THEN get_many(ic, DOMAIN data) ELSE << >>

\* The keys cache.get_many is called with.
KeysRead(force_refresh, data) ==
    IF ReadsCache(force_refresh, data) THEN DOMAIN data ELSE {}

\* Variant of UncachedKeys: every key of data, cached or not.
UncachedKeysAll(users, data, all_info, order) ==
    LET keys == SelectSeq(users, LAMBDA k : k \in DOMAIN data)
    IN IF order = "asc" THEN keys
       ELSE [i \in 1..Len(keys) |-> keys[Len(keys) + 1 - i]]

\* uncached_keys: the keys of data that are not in all_info, in the order
\* data.keys() yields them. The dict fixes that order, not the code; the model
\* lets it be the order of the request or the reverse.
UncachedKeys(users, data, all_info, order) ==
    LET keys == SelectSeq(users, LAMBDA k : k \in DOMAIN data /\ k \notin DOMAIN all_info)
    IN IF order = "asc" THEN keys
       ELSE [i \in 1..Len(keys) |-> keys[Len(keys) + 1 - i]]

\* Variant of IdGroups: all the IDs in one lookup.
IdGroupsUnbatched(user_ids) == IF Len(user_ids) = 0 THEN << >> ELSE << user_ids >>

\* Variant of IdGroups: every group is sent a second time.
IdGroupsResent(user_ids) ==
    chunk(user_ids, LookupGroupSize) \o chunk(user_ids, LookupGroupSize)

\* The lookup groups of one call: chunk(user_ids, 100) (line 144).
IdGroups(user_ids) == chunk(user_ids, LookupGroupSize)

\* new_info after the loop over the groups (lines 150-152), still indexed by
\* the info's id: a later group's info replaces an earlier one's.
RECURSIVE Fetched(_, _)
Fetched(bulk, n) == IF n = 0 THEN << >> ELSE bulk[n] @@ Fetched(bulk, n - 1)

\* new_info[reverse_data[str(info['id'])]] = info (lines 105-108, 150-152):
\* reverse_data maps a user id back to the key that data maps to it.
NewInfo(data, by_id) ==
    [k \in {u \in DOMAIN data : data[u] \in DOMAIN by_id} |-> by_id[data[k]]]

\* Variant of QuestionableIds: the missing IDs of the last group only.
QuestionableIdsLastGroup(groups, bulk) ==
    IF Len(groups) = 0 THEN {}
    ELSE Range(groups[Len(groups)]) \ DOMAIN bulk[Len(groups)]

\* questionable_ids (line 155): over all the groups, the IDs of the group
\* that its response does not hold.
QuestionableIds(groups, bulk) ==
    UNION {Range(groups[n]) \ DOMAIN bulk[n] : n \in 1..Len(groups)}

\* seen_ids as line 186 reads it: the name is rebound in every iteration of the
\* loop over the groups (line 154), so it holds the IDs the last group returned.
SeenIds(bulk) == DOMAIN bulk[Len(bulk)]

\* User.objects.filter(social_auth__uid__in=ids)
UsersWithUid(db, ids) ==
    {user \in db : \E i \in 1..Len(social_auth(user)) : social_auth(user)[i].uid \in ids}

\* The flags after lines 186-190, which run only when there are uncached keys.
FlagsAfter(db, nf, groups, bulk) ==
    IF Len(groups) = 0 THEN nf
    ELSE (nf \ UsersWithUid(db, SeenIds(bulk))) \cup UsersWithUid(db, QuestionableIds(groups, bulk))

\* Variant of SetMany: entries already in the cache are kept.
SetManyKeepingOld(ic, new_info) == ic @@ new_info

\* cache.set_many(new_info) (line 178)
SetMany(ic, new_info) == set_many(ic, new_info)

\* Variant of Update: the new info is left out of the result.
UpdateDropped(all_info, new_info) == all_info

\* all_info.update(new_info) (line 181)
Update(all_info, new_info) == new_info @@ all_info

\* The whole call, as a record of the state it leaves and of what it read,
\* sent, received and returned. failing is the set of the groups (by position)
\* whose lookup raises TwitterHTTPError. The locals are bound from the last
\* line up, in the order the code assigns them: data, all_info, uncached_keys,
\* user_ids, the groups, each group's bulk_info, new_info.
GetUsersInfoOutcome(db, ic, sic, nf, g, r, users, force_refresh, order, failing) ==
    Only({ Only({ Only({ Only({ Only({ Only({ Only({
        [ infoCache |-> SetMany(ic, new_info),
          socialIdCache |-> SocialIdCacheAfter(sic, data),
          sm_not_found |-> FlagsAfter(db, nf, groups, bulk),
          read |-> KeysRead(force_refresh, data),
          lookups |-> groups,
          failed |-> failing \cap (1..Len(groups)),
          bulk |-> bulk,
          result |-> Update(all_info, new_info) ]
        : new_info \in {NewInfo(data, Fetched(bulk, Len(groups)))} })
        : bulk \in {[n \in 1..Len(groups) |-> BulkInfo(groups[n], n \in failing, g, r)]} })
        : groups \in {IdGroups(user_ids)} })
        : user_ids \in {[i \in 1..Len(uncached_keys) |-> data[uncached_keys[i]]]} })
        : uncached_keys \in {UncachedKeys(users, data, all_info, order)} })
        : all_info \in {AllInfo(ic, force_refresh, data)} })
        : data \in {Data(sic, users)} })

\* ---------------------------------------------------------------------------
\* The state machine
\* ---------------------------------------------------------------------------
\* A get_users_info call, from its arguments to its return.
GetUsersInfo(users, force_refresh, order, failing) ==
    /\ calls < MaxCalls
    /\ \E out \in {GetUsersInfoOutcome(db_users, infoCache, socialIdCache, sm_not_found,
                                       gone, rev, users, force_refresh, order, failing)} :
          /\ infoCache' = out.infoCache
          /\ socialIdCache' = out.socialIdCache
          /\ sm_not_found' = out.sm_not_found
          /\ last' = [ users |-> users, force_refresh |-> force_refresh,
                       pre |-> infoCache, pre_nf |-> sm_not_found,
                       read |-> out.read, lookups |-> out.lookups, failed |-> out.failed,
                       bulk |-> out.bulk, result |-> out.result ]
    /\ calls' = calls + 1
    /\ UNCHANGED <<db_users, gone, rev>>
    /\ UNCHANGED singleVars

\* Twitter suspends the account of UserA.
Suspend ==
    /\ gone = {}
    /\ gone' = {social_auth(UserA)[1].uid}
    /\ UNCHANGED <<db_users, infoCache, socialIdCache, sm_not_found, rev, calls, last>>
    /\ UNCHANGED singleVars

\* The profiles change on Twitter.
Edit ==
    /\ rev < MaxRev
    /\ rev' = rev + 1
    /\ UNCHANGED <<db_users, infoCache, socialIdCache, sm_not_found, gone, calls, last>>
    /\ UNCHANGED singleVars

\* ---------------------------------------------------------------------------
\* get_api, get_user_info and tweet
\* ---------------------------------------------------------------------------
\* get_user_oauth raises SocialMediaException: no cached oauth-args, and no
\* social auth record or a first record of another provider (lines 275-293).
GetUserOAuthRaises(oc, user) ==
    /\ user \notin oc
    /\ \/ Len(social_auth(user)) = 0
       \/ social_auth(user)[1].provider # "twitter"

\* get_api(on_behalf_of) raises: only get_user_oauth can (lines 323-331).
GetApiRaises(oc, on_behalf_of) ==
    on_behalf_of # None /\ GetUserOAuthRaises(oc, on_behalf_of)

\* The oauth-args entries after a get_api that returned (line 306).
OAuthCacheAfter(oc, on_behalf_of) ==
    IF on_behalf_of = None THEN oc ELSE oc \cup {on_behalf_of}

\* The social-id entries after get_user_id(user) returned (lines 269-271).
SocialIdAfter(sic, user) == SocialIdCacheAfter(sic, (user :> get_user_id(sic, user)))

\* t.users.show(user_id=...) returns: the request goes through (ok) and the
\* account is there (line 81).
ShowSucceeds(ok, g, user_id) == ok /\ user_id \notin g

\* Variant of ShowFailureFlags: the failure leaves the flags alone.
ShowFailureIgnored(nf, user) == nf

\* user.sm_not_found = True; user.save(update_fields=['sm_not_found']) (lines 83-84)
ShowFailureFlags(nf, user) == nf \cup {user}

\* Variant of RestartsListener: the set of listened IDs is not looked at.
RestartsListenerForAnyUser(on_behalf_of, user_id, user_ids) == on_behalf_of # None

\* Whether tweet, after a status update that succeeded, sets 'restart_listener'
\* (lines 352-354).
RestartsListener(on_behalf_of, user_id, user_ids) ==
    /\ on_behalf_of # None
    /\ user_id \notin user_ids

\* What a call records of itself in lastOp.
OpRecord(op, user, on_behalf_of, remote, ok, raised, wrote, result) ==
    [ op |-> op, user |-> user, on_behalf_of |-> on_behalf_of, remote |-> remote,
      ok |-> ok, raised |-> raised, wrote |-> wrote, result |-> result ]

\* A get_user_info call, from its arguments to its return or its exception.
\* ok: whether the request to the remote, if one is made, goes through.
GetUserInfo(user, on_behalf_of, ok) ==
    /\ ops < MaxOps
    /\ ops' = ops + 1
    /\ IF user \in DOMAIN infoCache
       THEN \* line 65: the cached info is returned
            /\ lastOp' = OpRecord("get_user_info", user, on_behalf_of,
                                  FALSE, FALSE, FALSE, FALSE, infoCache[user])
            /\ UNCHANGED <<infoCache, socialIdCache, oauthCache, sm_not_found>>
       ELSE IF Raises(socialIdCache, user)
       THEN \* line 68: get_user_id raises
            /\ lastOp' = OpRecord("get_user_info", user, on_behalf_of,
                                  FALSE, FALSE, TRUE, FALSE, << >>)
            /\ UNCHANGED <<infoCache, socialIdCache, oauthCache, sm_not_found>>
       ELSE /\ socialIdCache' = SocialIdAfter(socialIdCache, user)
            /\ IF GetApiRaises(oauthCache, on_behalf_of)
               THEN \* line 79: get_api raises
                    /\ lastOp' = OpRecord("get_user_info", user, on_behalf_of,
                                          FALSE, FALSE, TRUE, FALSE, << >>)
                    /\ UNCHANGED <<infoCache, oauthCache, sm_not_found>>
               ELSE /\ oauthCache' = OAuthCacheAfter(oauthCache, on_behalf_of)
                    /\ \E user_id \in {get_user_id(socialIdCache, user)} :
                         IF ShowSucceeds(ok, gone, user_id)
                         THEN \* lines 86-88
                              /\ infoCache' = set_many(infoCache, (user :> Profile(user_id, rev)))
                              /\ lastOp' = OpRecord("get_user_info", user, on_behalf_of,
                                                    TRUE, TRUE, FALSE, FALSE, Profile(user_id, rev))
                              /\ UNCHANGED sm_not_found
                         ELSE \* lines 82-85
                              /\ sm_not_found' = ShowFailureFlags(sm_not_found, user)
                              /\ lastOp' = OpRecord("get_user_info", user, on_behalf_of,
                                                    TRUE, FALSE, TRUE, FALSE, << >>)
                              /\ UNCHANGED infoCache
    /\ UNCHANGED <<db_users, gone, rev, calls, last, listening_user_ids, restart_listener>>

\* A tweet call, from its arguments to its return or its exception.
\* ok: whether t.statuses.update returns rather than raises TwitterHTTPError.
Tweet(on_behalf_of, ok) ==
    /\ ops < MaxOps
    /\ ops' = ops + 1
    /\ IF GetApiRaises(oauthCache, on_behalf_of)
       THEN \* line 347: get_api raises
            /\ lastOp' = OpRecord("tweet", None, on_behalf_of,
                                  FALSE, FALSE, TRUE, FALSE, << >>)
            /\ UNCHANGED <<socialIdCache, oauthCache, restart_listener>>
       ELSE /\ oauthCache' = OAuthCacheAfter(oauthCache, on_behalf_of)
            /\ IF ~ok
               THEN \* lines 350-351
                    /\ lastOp' = OpRecord("tweet", None, on_behalf_of,
                                          TRUE, FALSE, FALSE, FALSE, FALSE)
                    /\ UNCHANGED <<socialIdCache, restart_listener>>
               ELSE IF on_behalf_of = None
               THEN \* lines 353, 359
                    /\ lastOp' = OpRecord("tweet", None, on_behalf_of,
                                          TRUE, TRUE, FALSE, FALSE, TRUE)
                    /\ UNCHANGED <<socialIdCache, restart_listener>>
               ELSE IF Raises(socialIdCache, on_behalf_of)
               THEN \* line 355: get_user_id raises
                    /\ lastOp' = OpRecord("tweet", None, on_behalf_of,
                                          TRUE, TRUE, TRUE, FALSE, << >>)
                    /\ UNCHANGED <<socialIdCache, restart_listener>>
               ELSE \* lines 354-359
                    /\ socialIdCache' = SocialIdAfter(socialIdCache, on_behalf_of)
                    /\ \E wrote \in {RestartsListener(on_behalf_of,
                                                      get_user_id(socialIdCache, on_behalf_of),
                                                      listening_user_ids)} :
                         /\ restart_listener' = (restart_listener \/ wrote)
                         /\ lastOp' = OpRecord("tweet", None, on_behalf_of,
                                               TRUE, TRUE, FALSE, wrote, TRUE)
    /\ UNCHANGED <<db_users, infoCache, sm_not_found, gone, rev, calls, last,
                   listening_user_ids>>

\* The sets of IDs the listener process may be following.
ListenedSets == {{}, {social_auth(UserA)[1].uid}}

\* The listener process, outside this class: it (re)starts, which leaves the
\* flag cleared and its set of followed IDs in the cache.
Listener ==
    /\ \E user_ids \in ListenedSets :
         /\ user_ids # listening_user_ids \/ restart_listener
         /\ listening_user_ids' = user_ids
    /\ restart_listener' = FALSE
    /\ UNCHANGED <<db_users, infoCache, socialIdCache, sm_not_found, gone, rev, calls,
                   last, oauthCache, ops, lastOp>>

NoCall ==
    [ users |-> << >>, force_refresh |-> FALSE, pre |-> << >>, pre_nf |-> {},
      read |-> {}, lookups |-> << >>, failed |-> {}, bulk |-> << >>, result |-> << >> ]

NoOp ==
    [ op |-> "none", user |-> None, on_behalf_of |-> None, remote |-> FALSE,
      ok |-> FALSE, raised |-> FALSE, wrote |-> FALSE, result |-> << >> ]

InitWith(db) ==
    /\ db_users = db
    /\ infoCache = << >>
    /\ socialIdCache = << >>
    /\ sm_not_found = {}
    /\ gone = {}
    /\ rev = 1
    /\ calls = 0
    /\ last = NoCall
    /\ oauthCache = {}
    /\ listening_user_ids = {}
    /\ restart_listener = FALSE
    /\ ops = 0
    /\ lastOp = NoOp

\* The orders in which a dict yields its keys, in the model.
Orders == {"asc", "desc"}

\* The requests of the model: lists of users in the order of their pk.
AscSeq(lo, hi) == [i \in 1..(hi - lo + 1) |-> lo + i - 1]

Requests ==
    { <<UserA>>, <<UserA, UserB>>,
      <<UserA, UserB, UserNoAuth, UserOther>> \o AscSeq(UserOther + 1, UserOther + LookupGroupSize) }

Init == InitWith(Special \cup Bulk100)

Next ==
    \/ \E users \in Requests, force_refresh \in BOOLEAN, order \in Orders,
          failing \in {{}, {1}, {2}} :
            GetUsersInfo(users, force_refresh, order, failing)
    \/ Suspend
    \/ Edit

Spec == Init /\ [][Next]_vars

\* Requests at and above ForceRefreshCap, over a users table that holds Bulk:
\* UserA and the next 5999 users, and UserA and the next 6000.
BigRequests ==
    { <<UserA>> \o AscSeq(UserOther + 1, UserOther + ForceRefreshCap - 1),
      <<UserA>> \o AscSeq(UserOther + 1, UserOther + ForceRefreshCap) }

InitBig == InitWith(Special \cup Bulk)

\* Calls for UserA alone, forced calls for the big requests, and profile edits.
NextBig ==
    \/ \E force_refresh \in BOOLEAN :
            GetUsersInfo(<<UserA>>, force_refresh, "asc", {})
    \/ \E users \in BigRequests, failing \in {{}, {1}} :
            GetUsersInfo(users, TRUE, "asc", failing)
    \/ Edit

SpecBig == InitBig /\ [][NextBig]_vars

\* The single-user operations next to get_users_info, over the four named
\* users alone.
SmallRequests == { <<UserA>>, <<UserA, UserB>> }

InitUser == InitWith(Special)

NextUser ==
    \/ \E user \in {UserA, UserNoAuth}, on_behalf_of \in {None, UserB, UserNoAuth},
          ok \in BOOLEAN :
            GetUserInfo(user, on_behalf_of, ok)
    \/ \E on_behalf_of \in {None, UserA, UserB, UserNoAuth}, ok \in BOOLEAN :
            Tweet(on_behalf_of, ok)
    \/ \E users \in SmallRequests, force_refresh \in BOOLEAN :
            GetUsersInfo(users, force_refresh, "asc", {})
    \/ Listener
    \/ Suspend
    \/ Edit

SpecUser == InitUser /\ [][NextUser]_vars

\* ---------------------------------------------------------------------------
\* What the claims speak about
\* ---------------------------------------------------------------------------
Called == calls > 0

\* A user linked to Twitter, by the users table alone.
IsTwitterLinked(user) ==
    /\ Len(social_auth(user)) > 0
    /\ social_auth(user)[1].provider = "twitter"

TwitterId(user) == social_auth(user)[1].uid

\* The linked users of the last request, and those with no cache entry when
\* the call began.
LinkedRequested == {user \in Range(last.users) : IsTwitterLinked(user)}

Uncached == LinkedRequested \ DOMAIN last.pre

\* The IDs sent to the remote over all the lookups of the last call, and the
\* IDs the remote returned.
SentIds == UNION {Range(last.lookups[n]) : n \in 1..Len(last.lookups)}

ReturnedIds == UNION {DOMAIN last.bulk[n] : n \in 1..Len(last.bulk)}

\* ---------------------------------------------------------------------------
\* C1
\* ---------------------------------------------------------------------------
\* C1: after a call, for every lookup group and every linked user whose ID was
\* sent in that group, the user's sm_not_found flag is true if the ID is absent
\* from the group's response and false if it is present.
C1_FlagsFollowEveryGroup ==
    \A n \in 1..Len(last.lookups) : \A user \in LinkedRequested :
        TwitterId(user) \in Range(last.lookups[n]) =>
            (user \in sm_not_found <=> TwitterId(user) \notin DOMAIN last.bulk[n])

\* ---------------------------------------------------------------------------
\* C2
\* ---------------------------------------------------------------------------
\* C2: a call with force_refresh=false whose linked users all had an info
\* cache entry issues no lookup.
C2_NoLookupWhenAllCached ==
    (Called /\ ~last.force_refresh /\ LinkedRequested \subseteq DOMAIN last.pre)
        => Len(last.lookups) = 0

\* A call without force_refresh for more than a group's worth of linked users,
\* all of them cached.
C2_Witness ==
    /\ Called /\ ~last.force_refresh
    /\ Cardinality(LinkedRequested) > LookupGroupSize
    /\ LinkedRequested \subseteq DOMAIN last.pre
    /\ Len(last.lookups) = 0

\* ---------------------------------------------------------------------------
\* C3
\* ---------------------------------------------------------------------------
\* C3: without force_refresh the IDs sent over all the lookups of a call are
\* exactly the IDs of the linked users with no cache entry; with UserA cached
\* and UserB not, a fetch for {UserA, UserB} issues one lookup, of UserB's ID.
C3_LookupsAreTheMisses ==
    (Called /\ ~last.force_refresh) =>
        /\ SentIds = {TwitterId(user) : user \in Uncached}
        /\ (last.users = <<UserA, UserB>> /\ UserA \in DOMAIN last.pre
                /\ UserB \notin DOMAIN last.pre)
             => last.lookups = << <<TwitterId(UserB)>> >>

\* The fetch for {UserA, UserB} with UserA cached and UserB not.
C3_Witness ==
    /\ Called /\ ~last.force_refresh
    /\ last.users = <<UserA, UserB>>
    /\ UserA \in DOMAIN last.pre /\ UserB \notin DOMAIN last.pre
    /\ Len(last.lookups) = 1

\* ---------------------------------------------------------------------------
\* C4
\* ---------------------------------------------------------------------------
\* C4: every lookup of a call carries at most 100 IDs.
C4_GroupsOfAtMost100 ==
    \A n \in 1..Len(last.lookups) : Len(last.lookups[n]) <= LookupGroupSize

\* A call with more than 100 misses: a full group of 100 and a further group.
C4_Witness ==
    /\ Cardinality(SentIds) > LookupGroupSize
    /\ Len(last.lookups) > 1
    /\ \E n \in 1..Len(last.lookups) : Len(last.lookups[n]) = LookupGroupSize

\* ---------------------------------------------------------------------------
\* C5
\* ---------------------------------------------------------------------------
\* The step is a get_users_info call that leaves what the same call with
\* force_refresh=false leaves: the same cache, flags and social ids, the same
\* keys read, the same lookups and responses, and the same result.
SameAsUnforced ==
    \E order \in Orders, users \in {last'.users}, failing \in {last'.failed} :
    \E out \in {GetUsersInfoOutcome(db_users, infoCache, socialIdCache, sm_not_found,
                                    gone, rev, users, FALSE, order, failing)} :
        /\ out.infoCache = infoCache'
        /\ out.socialIdCache = socialIdCache'
        /\ out.sm_not_found = sm_not_found'
        /\ out.read = last'.read
        /\ out.lookups = last'.lookups
        /\ out.bulk = last'.bulk
        /\ out.result = last'.result

Hits == {k \in last.read : k \in DOMAIN last.pre}

\* The profile the remote returned for an ID in the last call.
ReturnedProfile(id) ==
    last.bulk[CHOOSE n \in 1..Len(last.bulk) : id \in DOMAIN last.bulk[n]][id]

\* C6: when lookups fail with TwitterHTTPError the call still completes: a
\* failed group yields no profile and its users are flagged sm_not_found and
\* get no result; every miss is still sent, and what the other groups return
\* is cached and returned.
C6_FailedGroupDegrades ==
    (Called /\ last.failed # {}) =>
        /\ \A n \in last.failed :
              /\ DOMAIN last.bulk[n] = {}
              /\ \A user \in LinkedRequested :
                    TwitterId(user) \in Range(last.lookups[n]) =>
                        user \in sm_not_found /\ user \notin DOMAIN last.result
        /\ SentIds = {TwitterId(user) : user \in LinkedRequested \ Hits}
        /\ \A user \in LinkedRequested :
              TwitterId(user) \in ReturnedIds =>
                  /\ user \in DOMAIN infoCache /\ user \in DOMAIN last.result
                  /\ infoCache[user] = ReturnedProfile(TwitterId(user))
                  /\ last.result[user] = ReturnedProfile(TwitterId(user))

\* A call of two groups whose first lookup failed and whose second returned
\* profiles.
C6_Witness ==
    /\ Called /\ last.failed = {1}
    /\ Len(last.lookups) = 2
    /\ DOMAIN last.bulk[2] # {}
    /\ DOMAIN last.result # {}

\* ---------------------------------------------------------------------------
\* C7
\* ---------------------------------------------------------------------------
\* The request without its users that are not linked to Twitter.
LinkedOnly(users) == SelectSeq(users, IsTwitterLinked)

\* The step is a get_users_info call that leaves what the call for the linked
\* users of the request alone leaves.
SameAsWithoutUnlinked ==
    \E order \in Orders, users \in {LinkedOnly(last'.users)}, failing \in {last'.failed} :
    \E out \in {GetUsersInfoOutcome(db_users, infoCache, socialIdCache, sm_not_found,
                                    gone, rev, users, last'.force_refresh, order, failing)} :
        /\ out.infoCache = infoCache'
        /\ out.socialIdCache = socialIdCache'
        /\ out.sm_not_found = sm_not_found'
        /\ out.read = last'.read
        /\ out.lookups = last'.lookups
        /\ out.bulk = last'.bulk
        /\ out.result = last'.result

\* C7: a requested user with no social auth record, or with one of another
\* provider, is skipped: the call completes, sends only IDs of linked users,
\* writes no cache entry and returns no result for that user, and does for
\* the others what it does when the unlinked users are not requested.
C7_UnlinkedSkipped ==
    [][ (calls' # calls /\ LinkedOnly(last'.users) # last'.users) =>
          /\ SameAsWithoutUnlinked
          /\ SentIds' \subseteq {TwitterId(user) : user \in LinkedRequested'}
          /\ \A user \in Range(last'.users) :
                ~IsTwitterLinked(user) =>
                    user \notin DOMAIN infoCache' /\ user \notin DOMAIN last'.result ]_vars

\* A call for both kinds of unlinked users along with linked ones, which looked
\* up and returned profiles.
C7_Witness ==
    /\ Called
    /\ {UserNoAuth, UserOther} \subseteq Range(last.users)
    /\ SentIds # {}
    /\ DOMAIN last.result # {}

\* ---------------------------------------------------------------------------
\* C8
\* ---------------------------------------------------------------------------
\* The linked users of the last request whose ID the remote returned.
FetchedUsers == {user \in LinkedRequested : TwitterId(user) \in ReturnedIds}

\* C8: the result holds the cached value of every cache hit, the returned
\* profile of every miss the remote returned, and nothing else.
C8_ResultIsHitsAndFetched ==
    Called =>
        /\ DOMAIN last.result = Hits \cup FetchedUsers
        /\ Hits \cap FetchedUsers = {}
        /\ \A user \in Hits : last.result[user] = last.pre[user]
        /\ \A user \in FetchedUsers : last.result[user] = ReturnedProfile(TwitterId(user))

\* A call with a cache hit, a miss that was returned and a miss that was not.
C8_Witness ==
    /\ Called
    /\ Hits # {}
    /\ FetchedUsers # {}
    /\ \E user \in LinkedRequested \ Hits : user \notin DOMAIN last.result

\* ---------------------------------------------------------------------------
\* C9
\* ---------------------------------------------------------------------------
\* C9: a call removes no info cache entry; an entry whose profile the call
\* fetched holds that profile (created, or overwritten), and every other entry
\* was there before with the same value.
C9_CacheKeepsAndStores ==
    /\ DOMAIN last.pre \subseteq DOMAIN infoCache
    /\ DOMAIN infoCache = DOMAIN last.pre \cup FetchedUsers
    /\ \A fetched \in {FetchedUsers} : \A user \in DOMAIN infoCache :
          IF user \in fetched
          THEN infoCache[user] = ReturnedProfile(TwitterId(user))
          ELSE infoCache[user] = last.pre[user]

\* A forced refresh that overwrote an entry with a newer profile and created
\* another.
C9_Witness ==
    /\ Called /\ last.force_refresh
    /\ \E user \in DOMAIN last.pre : infoCache[user] # last.pre[user]
    /\ \E user \in DOMAIN infoCache : user \notin DOMAIN last.pre

\* ---------------------------------------------------------------------------
\* C10
\* ---------------------------------------------------------------------------
\* The result and the responses of the last call, as sets of <<id, profile>>.
ResultPairs == {<<TwitterId(user), last.result[user]>> : user \in DOMAIN last.result}

ReturnedPairs ==
    UNION {{<<id, last.bulk[n][id]>> : id \in DOMAIN last.bulk[n]} : n \in 1..Len(last.bulk)}

\* C10: a call with force_refresh=true for at most 6000 linked users reads no
\* info cache entry, sends the ID of every linked user, cached or not, and
\* returns exactly the profiles the remote returned.
C10_ForcedRefreshBypassesCache ==
    (Called /\ last.force_refresh /\ Cardinality(LinkedRequested) <= ForceRefreshCap) =>
        /\ last.read = {}
        /\ SentIds = {TwitterId(user) : user \in LinkedRequested}
        /\ DOMAIN last.result \subseteq LinkedRequested
        /\ ResultPairs = ReturnedPairs

\* A forced call for exactly 6000 linked users with UserA cached: UserA's ID
\* is sent and the result holds the newer profile, not the cached one.
C10_Witness ==
    /\ Called /\ last.force_refresh
    /\ Cardinality(LinkedRequested) = ForceRefreshCap
    /\ UserA \in LinkedRequested /\ UserA \in DOMAIN last.pre
    /\ TwitterId(UserA) \in SentIds
    /\ UserA \in DOMAIN last.result
    /\ last.result[UserA] # last.pre[UserA]

\* The IDs of the linked requested users the call found no cache entry for.
MissIds == {TwitterId(user) : user \in LinkedRequested \ Hits}

\* C11: no retries. Within one get_users_info call the lookup groups partition
\* the IDs of the cache misses: every miss ID is sent, nothing else is, no ID
\* appears twice in a group or in two groups, also when a lookup fails or
\* omits an ID; and m misses make ceil(m / 100) lookups.
C11_EachMissSentOnce ==
    /\ SentIds = MissIds
    /\ \A n \in 1..Len(last.lookups) :
          Cardinality(Range(last.lookups[n])) = Len(last.lookups[n])
    /\ \A n, k \in 1..Len(last.lookups) :
          n # k => Range(last.lookups[n]) \cap Range(last.lookups[k]) = {}
    /\ Len(last.lookups) = (Cardinality(MissIds) + LookupGroupSize - 1) \div LookupGroupSize

\* A call of two lookups for more than 100 misses, of which the first omits the
\* ID of UserA and the second fails.
C11_Witness ==
    /\ Called
    /\ Cardinality(MissIds) > LookupGroupSize
    /\ Len(last.lookups) = 2
    /\ last.failed = {2}
    /\ TwitterId(UserA) \in Range(last.lookups[1])
    /\ TwitterId(UserA) \notin DOMAIN last.bulk[1]

\* A step of this class: a get_users_info, get_user_info or tweet call.
ServiceStep == calls' # calls \/ ops' # ops

TweetStep == ops' # ops /\ lastOp'.op = "tweet"

\* C12: tweet sets the shared 'restart_listener' flag only after the status
\* update succeeded, only on behalf of a user, and only when that user's
\* Twitter ID is not in the cached 'listening_user_ids'; a failed update and a
\* tweet from the app account leave the flag as it was; and no call of this
\* class clears the flag or sets it anywhere else.
C12_FlagSetOnlyByUnlistenedUserTweet ==
    [][ /\ (TweetStep /\ lastOp'.wrote) =>
              /\ lastOp'.remote /\ lastOp'.ok
              /\ lastOp'.on_behalf_of # None
              /\ IsTwitterLinked(lastOp'.on_behalf_of)
              /\ TwitterId(lastOp'.on_behalf_of) \notin listening_user_ids
              /\ restart_listener'
        /\ (TweetStep /\ (~lastOp'.ok \/ lastOp'.on_behalf_of = None)) =>
              /\ ~lastOp'.wrote
              /\ restart_listener' = restart_listener
        /\ (ServiceStep /\ restart_listener' # restart_listener) =>
              /\ TweetStep /\ lastOp'.wrote
              /\ restart_listener'
      ]_vars

\* A tweet on behalf of UserB succeeded while the listener followed UserA
\* alone, and set the flag.
C12_Witness ==
    /\ lastOp.op = "tweet" /\ lastOp.ok /\ lastOp.wrote
    /\ lastOp.on_behalf_of = UserB
    /\ listening_user_ids = {TwitterId(UserA)}
    /\ restart_listener

\* C13: the frame of get_users_info. The call leaves the sm_not_found flag as
\* it was for every user that was a cache hit and for every user that is not
\* linked to Twitter or was not requested; and a call without cache misses
\* makes no lookup, writes no info entry and changes no flag.
C13_FlagsOfOthersUntouched ==
    Called =>
        /\ \A user \in db_users :
              (user \in Hits \/ ~IsTwitterLinked(user) \/ user \notin Range(last.users))
                  => (user \in sm_not_found <=> user \in last.pre_nf)
        /\ MissIds = {} =>
              /\ Len(last.lookups) = 0
              /\ infoCache = last.pre
              /\ sm_not_found = last.pre_nf

GetUserInfoStep == ops' # ops /\ lastOp'.op = "get_user_info"

\* The call before this one was a get_user_info for the same user, on behalf
\* of the same account, whose remote call failed.
RepeatsFailedCall ==
    /\ lastOp.op = "get_user_info"
    /\ lastOp.remote /\ ~lastOp.ok
    /\ lastOp.user = lastOp'.user
    /\ lastOp.on_behalf_of = lastOp'.on_behalf_of

\* C14: get_user_info for one user. On a cache hit it returns the cached
\* profile and makes no remote call. On a miss whose remote call fails it sets
\* the user's sm_not_found flag, raises, and leaves no info entry for the
\* user, so that the same call made again contacts the remote again. On a miss
\* whose remote call succeeds it stores the profile, returns it and leaves the
\* sm_not_found flags as they were.
C14_SingleUserLookup ==
    [][ GetUserInfoStep => \A user \in {lastOp'.user} :
          /\ user \in DOMAIN infoCache =>
                /\ ~lastOp'.remote /\ ~lastOp'.raised
                /\ lastOp'.result = infoCache[user]
                /\ infoCache' = infoCache
                /\ sm_not_found' = sm_not_found
          /\ (user \notin DOMAIN infoCache /\ lastOp'.remote /\ ~lastOp'.ok) =>
                /\ lastOp'.raised
                /\ user \in sm_not_found'
                /\ user \notin DOMAIN infoCache'
          /\ (user \notin DOMAIN infoCache /\ RepeatsFailedCall) => lastOp'.remote
          /\ (user \notin DOMAIN infoCache /\ lastOp'.remote /\ lastOp'.ok) =>
                /\ ~lastOp'.raised
                /\ lastOp'.result = Profile(TwitterId(user), rev)
                /\ user \in DOMAIN infoCache'
                /\ infoCache'[user] = lastOp'.result
                /\ sm_not_found' = sm_not_found
      ]_vars

\* Two get_user_info calls for UserA and no other call: the remote call of the
\* first failed and flagged UserA, the second contacted the remote again,
\* stored the profile and left UserA flagged.
C14_Witness ==
    /\ ops = 2 /\ calls = 0
    /\ lastOp.op = "get_user_info" /\ lastOp.user = UserA
    /\ lastOp.remote /\ lastOp.ok
    /\ UserA \in DOMAIN infoCache
    /\ UserA \in sm_not_found

====
